---- MODULE Spec2Model ----
(***************************************************************************)
(* A model of quiet/main.py: the per-record extraction (extract, with      *)
(* find_all_matches and inside_quote) and the chunk driver process_month.  *)
(*                                                                         *)
(* Texts are sequences of one-character strings, so that offsets, slices   *)
(* and the quote regex are computed as Python computes them.  A compiled   *)
(* pattern is a literal (a non-empty sequence of characters), the regular  *)
(* expressions without metacharacters.  Python's None is the sentinel      *)
(* string None, which no input string equals; for a compiled pattern it is *)
(* NoRegex, the empty sequence, which line 110 never compiles.             *)
(***************************************************************************)
EXTENDS Integers, Sequences, FiniteSets, TLC

VARIABLES
    \* ---- process_month (the chunk driver) ----
    args,            \* the argparse.Namespace handed to process_month
    records,         \* what read_redditfile(infile) yields, in order
    relevantSet,     \* the records the relevance predicate accepts
    pc,              \* "start" | "scanning" | "done" | "error" ("idle": not called)
    total_count,     \* running index of the record read last (-1 at start)
    relevant_count,
    sample_points,   \* the SamplePlan, head first
    outf,            \* lines appended to the primary stream by this chunk
    reviewf,         \* lines appended to the review stream by this chunk
    outf_state,      \* "unopened" | "open" | "closed"
    reviewf_state,
    opens,           \* number of open() calls made
    returned,        \* repr() of the value process_month returned ("" before)
    raised,          \* the exception that left process_month ("" if none)
    processed,       \* indices of the records passed to relevant()
    calls,           \* how often relevant, filter and extract were called
    \* ---- a direct call of extract ----
    xcall,           \* the arguments of the call
    xpc,             \* "idle" | "ready" | "returned" | "raised"
    xfile,           \* lines in the outfile handed to extract
    xraised          \* the exception extract raised ("" if none)

vars == <<args, records, relevantSet, pc, total_count, relevant_count,
          sample_points, outf, reviewf, outf_state, reviewf_state, opens,
          returned, raised, processed, calls, xcall, xpc, xfile, xraised>>

driverVars == <<args, records, relevantSet, pc, total_count, relevant_count,
                sample_points, outf, reviewf, outf_state, reviewf_state,
                opens, returned, raised, processed, calls>>

callVars == <<xcall, xpc, xfile, xraised>>

\* ------------------------------------------------------------------ bounds

MaxTokens == 3       \* tokens per text handed to extract directly
MaxDropped == 2      \* fields removed from a complete record
MaxRecords == 3      \* records in a chunk
MaxSample == 2       \* largest requested sample size

\* ------------------------------------------------------------ Python values

None == "None"

LF == "\n"

\* compiled_comment_regex is None (args.commentregex was None or '')
NoRegex == <<>>

\* str.join of characters: the Python string a character sequence stands for
RECURSIVE Str(_)
Str(s) == IF s = <<>> THEN "" ELSE Head(s) \o Str(Tail(s))

\* text[:n]
Prefix(text, n) == SubSeq(text, 1, IF n < Len(text) THEN n ELSE Len(text))

\* whether lit occurs in text at 0-based offset i
OccursAt(text, lit, i) ==
    /\ i >= 0
    /\ i + Len(lit) <= Len(text)
    /\ SubSeq(text, i + 1, i + Len(lit)) = lit

\* how csv.writer renders one field holding a string or None
CsvField(v) == IF v = None THEN "" ELSE v

QuoteMarker == <<"&", "g", "t", ";">>

\* ------------------------------------------------------- find_all_matches

\* regex.finditer(text) for a literal pattern: leftmost, non-overlapping
RECURSIVE ScanFrom(_, _, _)
ScanFrom(text, regex, pos) ==
    IF pos + Len(regex) > Len(text) THEN <<>>
    ELSE IF OccursAt(text, regex, pos)
         THEN <<(<<pos, pos + Len(regex)>>)>> \o ScanFrom(text, regex, pos + Len(regex))
         ELSE ScanFrom(text, regex, pos + 1)

find_all_matches(text, regex) == ScanFrom(text, regex, 0)

\* ----------------------------------------------------------- inside_quote

\* re.search('&gt;[^\n]+$', s): a marker, then one or more characters other
\* than a line break, up to the end of s or to a line break that ends s
QuoteRegexMatches(s) ==
    \E i \in 0..Len(s) : \E j \in 1..Len(s) :
        /\ OccursAt(s, QuoteMarker, i)
        /\ j >= i + Len(QuoteMarker) + 1
        /\ \A k \in (i + Len(QuoteMarker) + 1)..j : s[k] # LF
        /\ \/ j = Len(s)
           \/ j = Len(s) - 1 /\ s[Len(s)] = LF

inside_quote(text, span) ==
    LET end == span[2]
        relevant_text == Prefix(text, end)
    IN  QuoteRegexMatches(relevant_text)

\* ---------------------------------------------------------------- extract

\* str.split(sep) for a one-character separator
RECURSIVE SplitFrom(_, _, _)
SplitFrom(s, sep, cur) ==
    IF s = <<>> THEN <<cur>>
    ELSE IF Head(s) = sep THEN <<cur>> \o SplitFrom(Tail(s), sep, <<>>)
         ELSE SplitFrom(Tail(s), sep, Append(cur, Head(s)))

Split(s, sep) == SplitFrom(s, sep, <<>>)

Has(comment_or_post, key) == key \in DOMAIN comment_or_post

TextKey(a) == IF a.searchmode = "comms" THEN "body" ELSE "selftext"

\* the fields lines 55-60 subscript, in the order they are read
FieldsRead(a) ==
    <<TextKey(a), "author", "author_flair_text", "subreddit", "score", "created_utc">>

\* the exception raised while lines 55-65 read the record, "" if none
ReadError(a, comment_or_post) ==
    LET missing == {i \in 1..Len(FieldsRead(a)) : ~Has(comment_or_post, FieldsRead(a)[i])}
    IN  IF missing # {}
        THEN "KeyError: " \o FieldsRead(a)[CHOOSE i \in missing : \A j \in missing : i <= j]
        ELSE IF ~Has(comment_or_post, "link_id") THEN ""
        ELSE IF Len(Split(comment_or_post.link_id, "_")) < 2 THEN "IndexError"
        ELSE IF ~Has(comment_or_post, "id") THEN "KeyError: id"
        ELSE ""

\* lines 63-65
oldschool_link(comment_or_post) ==
    IF Has(comment_or_post, "link_id")
    THEN "https://www.reddit.com/r/" \o comment_or_post.subreddit \o "/comments/"
            \o Str(Split(comment_or_post.link_id, "_")[2]) \o "//" \o comment_or_post.id
    ELSE None

\* line 68
permalink(comment_or_post) ==
    IF Has(comment_or_post, "permalink")
    THEN "https://www.reddit.com" \o comment_or_post.permalink
    ELSE oldschool_link(comment_or_post)

\* str(span) of a tuple of two ints
SpanStr(span) == "(" \o ToString(span[1]) \o ", " \o ToString(span[2]) \o ")"

\* the row of lines 74 and 80, as csv.writer renders its nine fields
Row(a, comment_or_post, span, filter_reason) ==
    << Str(comment_or_post[TextKey(a)]),
       CsvField(span),
       comment_or_post.subreddit,
       ToString(comment_or_post.score),
       comment_or_post.author,
       CsvField(comment_or_post.author_flair_text),
       ToString(comment_or_post.created_utc),
       CsvField(permalink(comment_or_post)),
       CsvField(filter_reason) >>

\* line 78: whether the match at span is written
MatchWritten(text, span, include_quoted) ==
    ~include_quoted /\ ~inside_quote(text, span)

\* lines 77-81
RECURSIVE MatchRows(_, _, _, _, _)
MatchRows(a, comment_or_post, spans, include_quoted, filter_reason) ==
    IF spans = <<>> THEN <<>>
    ELSE (IF MatchWritten(comment_or_post[TextKey(a)], Head(spans), include_quoted)
          THEN <<Row(a, comment_or_post, SpanStr(Head(spans)), filter_reason)>>
          ELSE <<>>)
         \o MatchRows(a, comment_or_post, Tail(spans), include_quoted, filter_reason)

\* json.dumps(comment_or_post) + '\n': the whole record as one line
JsonLine(comment_or_post) == <<"json", comment_or_post>>

\* extract, were a missing field read with a default instead of raising: the
\* row is written with the field blank
extract_DefaultsMissing(a, comment_or_post, compiled_comment_regex, include_quoted, outfile, filter_reason) ==
    IF a.return_all
    THEN [raised |-> "", outfile |-> Append(outfile, JsonLine(comment_or_post))]
    ELSE IF ReadError(a, comment_or_post) # ""
    THEN [raised |-> "",
          outfile |-> Append(outfile, <<"", "", "", "", "", "", "", "", CsvField(filter_reason)>>)]
    ELSE IF compiled_comment_regex = NoRegex
    THEN [raised |-> "",
          outfile |-> Append(outfile, Row(a, comment_or_post, None, filter_reason))]
    ELSE [raised |-> "",
          outfile |-> outfile \o
              MatchRows(a, comment_or_post,
                        find_all_matches(comment_or_post[TextKey(a)], compiled_comment_regex),
                        include_quoted, filter_reason)]

\* extract: the exception it raises ("" if none) and the outfile afterwards
extract(a, comment_or_post, compiled_comment_regex, include_quoted, outfile, filter_reason) ==
    IF a.return_all
    THEN [raised |-> "", outfile |-> Append(outfile, JsonLine(comment_or_post))]
    ELSE IF ReadError(a, comment_or_post) # ""
    THEN [raised |-> ReadError(a, comment_or_post), outfile |-> outfile]
    ELSE IF compiled_comment_regex = NoRegex
    THEN [raised |-> "",
          outfile |-> Append(outfile, Row(a, comment_or_post, None, filter_reason))]
    ELSE [raised |-> "",
          outfile |-> outfile \o
              MatchRows(a, comment_or_post,
                        find_all_matches(comment_or_post[TextKey(a)], compiled_comment_regex),
                        include_quoted, filter_reason)]

\* ------------------------------------------------------------------ inputs

Keys == {"body", "selftext", "author", "author_flair_text", "subreddit", "score",
         "created_utc", "id", "link_id", "permalink"}

\* a record of the archive carrying every field
FullRecord(text, link_id) ==
    [body |-> text, selftext |-> text, author |-> "u1", author_flair_text |-> None,
     subreddit |-> "x", score |-> 50, created_utc |-> 1500000000, id |-> "def",
     link_id |-> link_id, permalink |-> "/r/x/comments/abc/_/"]

Without(comment_or_post, dropped) ==
    [k \in (DOMAIN comment_or_post) \ dropped |-> comment_or_post[k]]

Tokens == {QuoteMarker, <<"a">>, <<"b">>, <<LF>>}

RECURSIVE Flatten(_)
Flatten(ss) == IF ss = <<>> THEN <<>> ELSE Head(ss) \o Flatten(Tail(ss))

Texts == {Flatten(ts) : ts \in UNION {[1..n -> Tokens] : n \in 0..MaxTokens}}

FewTexts == {<<"a">>, <<"&", "g", "t", ";", "a">>}

LinkIds == {<<"t", "3", "_", "a", "b", "c">>, <<"a", "b", "c">>,
            <<"t", "3", "_", "a", "b", "_", "c">>}

DefaultLinkId == <<"t", "3", "_", "a", "b", "c">>

DropSets == {d \in SUBSET Keys : Cardinality(d) <= MaxDropped}

Regexes == {NoRegex, <<"a">>, <<"g", "t", ";">>}

Reasons == {None, "low score"}

\* an outfile opened in append mode: empty, or holding an earlier row
Outfiles == {<<>>, <<(<<"old", "", "x", "1", "u0", "", "1400000000", "", "">>)>>}

\* the fields of args that extract reads
ExtractArgs == [return_all : BOOLEAN, searchmode : {"comms", "subs"}]

\* ------------------------------------------------- a direct call of extract

DriverIdle ==
    /\ args = [count |-> FALSE]
    /\ records = <<>>
    /\ relevantSet = {}
    /\ pc = "idle"
    /\ total_count = -1
    /\ relevant_count = 0
    /\ sample_points = <<>>
    /\ outf = <<>>
    /\ reviewf = <<>>
    /\ outf_state = "unopened"
    /\ reviewf_state = "unopened"
    /\ opens = 0
    /\ returned = ""
    /\ raised = ""
    /\ processed = {}
    /\ calls = [relevant |-> 0, filter |-> 0, extract |-> 0]

ExtractCalls ==
    {[args |-> a, comment_or_post |-> c, compiled_comment_regex |-> re,
      include_quoted |-> iq, outfile |-> f, filter_reason |-> fr] :
        a \in ExtractArgs,
        c \in {FullRecord(t, DefaultLinkId) : t \in Texts}
              \cup {Without(FullRecord(t, l), d) : t \in FewTexts, l \in LinkIds, d \in DropSets},
        re \in Regexes, iq \in BOOLEAN, f \in Outfiles, fr \in Reasons}

ExtractInit ==
    /\ DriverIdle
    /\ xcall \in ExtractCalls
    /\ xpc = "ready"
    /\ xfile = xcall.outfile
    /\ xraised = ""

CallExtract ==
    /\ xpc = "ready"
    /\ LET r == extract(xcall.args, xcall.comment_or_post, xcall.compiled_comment_regex,
                        xcall.include_quoted, xfile, xcall.filter_reason)
       IN  /\ xfile' = r.outfile
           /\ xraised' = r.raised
           /\ xpc' = IF r.raised = "" THEN "returned" ELSE "raised"
    /\ UNCHANGED <<xcall, driverVars>>

ExtractNext == CallExtract

ExtractSpec == ExtractInit /\ [][ExtractNext]_vars

\* ---------------------------------------------------------- process_month

\* relevant(comment_or_post, args): a pure predicate of the record.  Its body
\* is a TODO in the source; relevantSet is its extension, and the predicate
\* as it stands (it returns None for every record) is relevantSet = {}.
relevant(comment_or_post, a) == comment_or_post \in relevantSet

\* re.compile(args.commentregex) if args.commentregex else None
Compile(commentregex) == IF commentregex = <<>> THEN NoRegex ELSE commentregex

\* get_samplepoints: strictly ascending indices of the chunk, at most k of
\* them (and at least one when the chunk has a record)
SamplePlans(k, n) ==
    IF n = 0 THEN {<<>>}
    ELSE {sp \in UNION {[1..m -> 0..(n - 1)] : m \in 1..(IF k < n THEN k ELSE n)} :
            \A i \in 1..(Len(sp) - 1) : sp[i] < sp[i + 1]}

\* line 120, were the plan not consulted
ShouldProcess_EveryRecord(a, index, plan) == TRUE

\* line 120
ShouldProcess(a, index, plan) ==
    a.sample = 0 \/ (a.sample # 0 /\ index = plan[1])

\* lines 122-125: the plan after del sample_points[0], and whether to break
PlanAfterTake(a, plan) == IF a.sample # 0 THEN Tail(plan) ELSE plan

BreaksAfterTake(a, plan) == a.sample # 0 /\ Len(PlanAfterTake(a, plan)) = 0

\* lines 127-128, were the counter advanced outside the if
CountRelevant_EveryRecord(count, isRelevant) == count + 1

\* lines 127-128
CountRelevant(count, isRelevant) == IF isRelevant THEN count + 1 ELSE count

\* line 129
Emits(a) == ~a.count

\* the builtin filter(function, iterable), which line 132 calls (the module
\* defines and imports no other filter): a filter object, or TypeError when
\* the second argument cannot be iterated
builtin_filter(function, iterable) ==
    IF iterable.type = "str"
    THEN [raised |-> "", value |-> [type |-> "filter"]]
    ELSE [raised |-> "TypeError", value |-> [type |-> "NoneType"]]

\* bool(v)
Truthy(v) ==
    CASE v.type = "bool" -> v.value
      [] v.type = "NoneType" -> FALSE
      [] OTHER -> TRUE

\* line 132, were dont_filter not consulted
Classify_IgnoresDontFilter(a, comment_or_post) ==
    LET f == builtin_filter(comment_or_post, a.popularity)
    IN  [raised |-> f.raised, called |-> 1, filtered |-> Truthy(f.value), reason |-> None]

\* line 132, which Python reads as
\*   filtered, reason = ((filter(...) if not args.dont_filter else False), None)
Classify(a, comment_or_post) ==
    IF ~a.dont_filter
    THEN LET f == builtin_filter(comment_or_post, a.popularity)
         IN  [raised |-> f.raised, called |-> 1, filtered |-> Truthy(f.value), reason |-> None]
    ELSE [raised |-> "", called |-> 0,
          filtered |-> Truthy([type |-> "bool", value |-> FALSE]), reason |-> None]

\* lines 133-136: the two streams after the record is extracted
Emit(a, comment_or_post, regex, filtered, reason, primary, review) ==
    IF ~filtered
    THEN LET r == extract(a, comment_or_post, regex, a.include_quoted, primary, None)
         IN  [raised |-> r.raised, outf |-> r.outfile, reviewf |-> review]
    ELSE LET r == extract(a, comment_or_post, regex, a.include_quoted, review, reason)
         IN  [raised |-> r.raised, outf |-> primary, reviewf |-> r.outfile]

\* lines 127-136 for one record: what they raise and leave behind
Handle(a, comment_or_post, primary, review) ==
    LET isRelevant == relevant(comment_or_post, a)
        c == Classify(a, comment_or_post)
        e == Emit(a, comment_or_post, Compile(a.commentregex), c.filtered, c.reason,
                  primary, review)
    IN  IF ~(isRelevant /\ Emits(a))
        THEN [raised |-> "", outf |-> primary, reviewf |-> review, filter |-> 0, extract |-> 0]
        ELSE IF c.raised # ""
        THEN [raised |-> c.raised, outf |-> primary, reviewf |-> review,
              filter |-> c.called, extract |-> 0]
        ELSE [raised |-> e.raised, outf |-> e.outf, reviewf |-> e.reviewf,
              filter |-> c.called, extract |-> 1]

GoodRecord == FullRecord(<<"a", "&", "g", "t", ";", "a">>, DefaultLinkId)

MalformedRecord == Without(GoodRecord, {"body"})

ChunkRecords == {GoodRecord, MalformedRecord}

Popularities == {[type |-> "int", repr |-> "10"], [type |-> "str", repr |-> "10"]}

DriverArgs ==
    [count : BOOLEAN, sample : 0..MaxSample, dont_filter : BOOLEAN, return_all : BOOLEAN,
     include_quoted : BOOLEAN, popularity : Popularities, commentregex : {<<>>, <<"a">>},
     searchmode : {"comms"}]

CallIdle ==
    /\ xcall = <<>>
    /\ xpc = "idle"
    /\ xfile = <<>>
    /\ xraised = ""

Init ==
    /\ args \in DriverArgs
    /\ records \in UNION {[1..n -> ChunkRecords] : n \in 0..MaxRecords}
    /\ relevantSet \in SUBSET ChunkRecords
    /\ pc = "start"
    /\ total_count = -1
    /\ relevant_count = 0
    /\ sample_points = <<>>
    /\ outf = <<>>
    /\ reviewf = <<>>
    /\ outf_state = "unopened"
    /\ reviewf_state = "unopened"
    /\ opens = 0
    /\ returned = ""
    /\ raised = ""
    /\ processed = {}
    /\ calls = [relevant |-> 0, filter |-> 0, extract |-> 0]
    /\ CallIdle

\* lines 106-116
Begin ==
    /\ pc = "start"
    /\ relevant_count' = 0
    /\ total_count' = -1
    /\ IF args.sample # 0
       THEN sample_points' \in SamplePlans(args.sample, Len(records))
       ELSE sample_points' = sample_points
    /\ IF ~args.count
       THEN /\ outf_state' = "open"
            /\ reviewf_state' = "open"
            /\ opens' = opens + 2
       ELSE UNCHANGED <<outf_state, reviewf_state, opens>>
    /\ pc' = "scanning"
    /\ UNCHANGED <<args, records, relevantSet, outf, reviewf, returned, raised,
                   processed, calls, callVars>>

\* lines 137-141
Leave ==
    /\ IF ~args.count
       THEN /\ outf_state' = "closed"
            /\ reviewf_state' = "closed"
            /\ returned' = None
       ELSE /\ UNCHANGED <<outf_state, reviewf_state>>
            /\ returned' = ToString(relevant_count)
    /\ pc' = "done"

HasNext == pc = "scanning" /\ total_count + 1 < Len(records)

\* lines 118-120: a record that line 120 passes over
SkipRecord ==
    /\ HasNext
    /\ ~ShouldProcess(args, total_count + 1, sample_points)
    /\ total_count' = total_count + 1
    /\ UNCHANGED <<args, records, relevantSet, pc, relevant_count, sample_points, outf,
                   reviewf, outf_state, reviewf_state, opens, returned, raised,
                   processed, calls, callVars>>

\* lines 118-125, then 137-141: the record whose removal empties the plan
SampleBreak ==
    /\ HasNext
    /\ ShouldProcess(args, total_count + 1, sample_points)
    /\ BreaksAfterTake(args, sample_points)
    /\ total_count' = total_count + 1
    /\ sample_points' = PlanAfterTake(args, sample_points)
    /\ Leave
    /\ UNCHANGED <<args, records, relevantSet, relevant_count, outf, reviewf, opens,
                   raised, processed, calls, callVars>>

\* lines 118-136: a record that reaches the relevance filter
ProcessRecord ==
    /\ HasNext
    /\ ShouldProcess(args, total_count + 1, sample_points)
    /\ ~BreaksAfterTake(args, sample_points)
    /\ LET index == total_count + 1
           comment_or_post == records[index + 1]
           h == Handle(args, comment_or_post, outf, reviewf)
       IN  /\ total_count' = index
           /\ sample_points' = PlanAfterTake(args, sample_points)
           /\ processed' = processed \cup {index}
           /\ relevant_count' = CountRelevant(relevant_count, relevant(comment_or_post, args))
           /\ calls' = [relevant |-> calls.relevant + 1,
                        filter |-> calls.filter + h.filter,
                        extract |-> calls.extract + h.extract]
           /\ outf' = h.outf
           /\ reviewf' = h.reviewf
           /\ raised' = h.raised
           /\ pc' = IF h.raised = "" THEN "scanning" ELSE "error"
    /\ UNCHANGED <<args, records, relevantSet, outf_state, reviewf_state, opens,
                   returned, callVars>>

\* line 118 with the record source exhausted, then lines 137-141
Exhausted ==
    /\ pc = "scanning"
    /\ total_count + 1 = Len(records)
    /\ Leave
    /\ UNCHANGED <<args, records, relevantSet, total_count, relevant_count, sample_points,
                   outf, reviewf, opens, raised, processed, calls, callVars>>

Next == Begin \/ SkipRecord \/ SampleBreak \/ ProcessRecord \/ Exhausted

Spec == Init /\ [][Next]_vars

\* ------------------------------------------------------------------ claims

ExtractDone == xpc \in {"returned", "raised"}

\* the matches the quote rule keeps
RECURSIVE KeptSpans(_, _, _)
KeptSpans(text, spans, include_quoted) ==
    IF spans = <<>> THEN <<>>
    ELSE (IF include_quoted \/ ~inside_quote(text, Head(spans)) THEN <<Head(spans)>> ELSE <<>>)
         \o KeptSpans(text, Tail(spans), include_quoted)

RowsFor(a, comment_or_post, spans, filter_reason) ==
    [i \in 1..Len(spans) |-> Row(a, comment_or_post, SpanStr(spans[i]), filter_reason)]

\* C1: with a pattern and return_all off, extract appends exactly one row per
\* match that is outside a quote when include_quoted is false, and one row
\* per match, quoted or not, when include_quoted is true.
C1_RowsPerMatch ==
    LET c == xcall.comment_or_post
        text == c[TextKey(xcall.args)]
        kept == KeptSpans(text, find_all_matches(text, xcall.compiled_comment_regex),
                          xcall.include_quoted)
    IN  (/\ ExtractDone
         /\ ~xcall.args.return_all
         /\ xcall.compiled_comment_regex # NoRegex
         /\ ReadError(xcall.args, c) = "")
        => /\ xpc = "returned"
           /\ Len(xfile) = Len(xcall.outfile) + Len(kept)
           /\ \A i \in 1..Len(kept) :
                xfile[Len(xcall.outfile) + i]
                    = RowsFor(xcall.args, c, kept, xcall.filter_reason)[i]

\* C2: with sampling on, every record whose running index equals the head of
\* the plan is passed to the relevance filter (the last index of the plan
\* included).
C2_HeadProcessed ==
    [][(/\ pc = "scanning"
        /\ args.sample # 0
        /\ sample_points # <<>>
        /\ total_count' = total_count + 1
        /\ total_count' = sample_points[1])
       => total_count' \in processed']_vars

RelevantIn(indices) == {i \in indices : relevant(records[i + 1], args)}

\* C5: count-only mode without sampling opens no stream, writes no row, and
\* returns the number of records of the chunk that are relevant.
C5_CountOnly ==
    (args.count /\ args.sample = 0 /\ pc # "idle")
    => /\ opens = 0
       /\ outf_state = "unopened" /\ reviewf_state = "unopened"
       /\ outf = <<>> /\ reviewf = <<>>
       /\ pc # "error"
       /\ pc = "done"
            => returned = ToString(Cardinality(RelevantIn(0..(Len(records) - 1))))

C5_Witness ==
    /\ args.count /\ args.sample = 0
    /\ pc = "done"
    /\ Len(records) = MaxRecords
    /\ Cardinality(RelevantIn(0..(Len(records) - 1))) \in 1..(Len(records) - 1)
    /\ returned # "0"

C7_DontFilterAccepts ==
    (args.dont_filter /\ pc # "idle")
    => /\ calls.filter = 0
       /\ reviewf = <<>>
       /\ \A i \in 1..Len(outf) : Len(outf[i]) = 9 => outf[i][9] = ""
       /\ ~args.count => calls.extract = Cardinality(RelevantIn(processed))
       /\ (~args.count /\ args.return_all) => Len(outf) = Cardinality(RelevantIn(processed))

C7_Witness ==
    /\ args.dont_filter /\ ~args.count /\ ~args.return_all
    /\ args.popularity.type = "str"
    /\ pc = "done"
    /\ Len(outf) >= 2
    /\ calls.extract >= 2

\* everything after the first sep of s
RECURSIVE AfterFirst(_, _)
AfterFirst(s, sep) ==
    IF s = <<>> THEN <<>>
    ELSE IF Head(s) = sep THEN Tail(s) ELSE AfterFirst(Tail(s), sep)

Contains(s, ch) == \E i \in 1..Len(s) : s[i] = ch

\* C8: the permalink column is 'https://www.reddit.com' + permalink when the
\* record has a permalink field, whatever link_id and id hold; else the
\* old-style link built from subreddit, the part of link_id after the first
\* '_', and id; else empty, without an error.
C8_PermalinkOrder ==
    LET c == xcall.comment_or_post
        last == xfile[Len(xfile)]
    IN  (/\ ExtractDone
         /\ ~xcall.args.return_all
         /\ xcall.compiled_comment_regex = NoRegex
         /\ \A i \in 1..Len(FieldsRead(xcall.args)) : Has(c, FieldsRead(xcall.args)[i]))
        => IF Has(c, "permalink")
           THEN xpc = "returned" /\ last[8] = "https://www.reddit.com" \o c.permalink
           ELSE IF Has(c, "link_id")
           THEN (Has(c, "id") /\ Contains(c.link_id, "_"))
                => /\ xpc = "returned"
                   /\ last[8] = "https://www.reddit.com/r/" \o c.subreddit \o "/comments/"
                                   \o Str(AfterFirst(c.link_id, "_")) \o "//" \o c.id
           ELSE xpc = "returned" /\ last[8] = ""

RequiredFields(a) == {TextKey(a), "author", "subreddit", "score", "created_utc"}

LacksRequired(a, comment_or_post) ==
    \E f \in RequiredFields(a) : ~Has(comment_or_post, f)

\* C9: with return_all off, extract of a record that lacks a required field
\* raises and leaves the outfile as it was before the call.
C9_MissingFieldNoRow ==
    (/\ ExtractDone
     /\ ~xcall.args.return_all
     /\ LacksRequired(xcall.args, xcall.comment_or_post))
    => /\ xpc = "raised"
       /\ xraised # ""
       /\ xfile = xcall.outfile

C9_Witness ==
    /\ xpc = "raised"
    /\ ~xcall.args.return_all
    /\ ~Has(xcall.comment_or_post, "score")
    /\ Has(xcall.comment_or_post, TextKey(xcall.args))
    /\ xcall.compiled_comment_regex # NoRegex
    /\ xcall.outfile # <<>>
    /\ xfile = xcall.outfile

\* C10: with sampling on, reading a record whose index is not the head of the
\* plan only advances the running index: no filter or extract is called, and
\* the plan, the relevant counter and both streams stay as they are.
C10_SkipOnlyAdvances ==
    [][(/\ pc = "scanning"
        /\ args.sample # 0
        /\ sample_points # <<>>
        /\ total_count' = total_count + 1
        /\ total_count' # sample_points[1])
       => /\ UNCHANGED <<sample_points, relevant_count, outf, reviewf, calls, processed>>
          /\ UNCHANGED <<outf_state, reviewf_state, opens, returned, raised>>
          /\ pc' = "scanning"]_vars

C10_Witness ==
    /\ args.sample # 0
    /\ pc = "scanning"
    /\ total_count >= 1
    /\ processed = {}
    /\ calls.relevant = 0
    /\ Len(sample_points) = args.sample

====
